---- MODULE Spec2Model ----
(***************************************************************************)
(* oneflow.math.reduce_sum (oneflow/python/ops/reduce_sum.py): the builder *)
(* that fills an OperatorConf, registers it in the current job and returns *)
(* a RemoteBlob for the operation's output.                                *)
(*                                                                         *)
(* One call is modelled statement by statement (pc names the statement     *)
(* that runs next); the caller makes one call after another.               *)
(***************************************************************************)
EXTENDS Integers, Sequences, FiniteSets, TLC

VARIABLES
    pc,         \* the statement of reduce_sum that runs next, or "idle"
    args,       \* the arguments of the call in progress
    op_conf,    \* the local OperatorConf of the call in progress
    lbi,        \* the local LogicalBlobId of the call in progress
    exc,        \* the exception in flight ("" when there is none)
    job,        \* the current job: the descriptors registered so far
    seq,        \* the counter behind id_util.UniqueStr
    generated,  \* every string UniqueStr has returned, in order
    stdout,     \* everything printed so far
    mark,       \* Len(stdout) when the call in progress was entered
    calls       \* the finished calls, in order: arguments and outcome

vars == <<pc, args, op_conf, lbi, exc, job, seq, generated, stdout, mark, calls>>

(***************************************************************************)
(* Bounds.                                                                 *)
(***************************************************************************)
MaxCalls == 2

(***************************************************************************)
(* Python values.  None is told from a string or an int by a tag, as       *)
(* `is None` and isinstance tell them in the source.                       *)
(***************************************************************************)
NoneName == [kind |-> "None", str |-> ""]
StrName(s) == [kind |-> "str", str |-> s]

AxisNone == [kind |-> "None", int |-> 0, elems |-> <<>>]
AxisInt(n) == [kind |-> "int", int |-> n, elems |-> <<>>]
AxisSized(s) == [kind |-> "Sized", int |-> 0, elems |-> s]

\* protobuf defaults of a freshly constructed message
OperatorConf ==
    [name |-> "",
     reduce_sum_conf |-> [in |-> "", out |-> "", axis |-> <<>>, keep_dims |-> FALSE]]

LogicalBlobId == [op_name |-> "", blob_name |-> ""]

(***************************************************************************)
(* Collaborators that the source calls and does not define.                *)
(***************************************************************************)
\* id_util.UniqueStr(prefix): the prefix followed by the next id
UniqueStr(prefix, n) == prefix \o ToString(n)

\* compile_context.CurJobAddOp(op_conf): the job accumulates the descriptor
CurJobAddOp(j, conf) == Append(j, conf)

\* remote_blob_util.RemoteBlob(lbi): the handle keeps the logical blob id
RemoteBlob(l) == [lbi |-> l]

\* RemoteBlob.logical_blob_name: derived from the logical blob id
logical_blob_name(l) == l.op_name \o "/" \o l.blob_name

(***************************************************************************)
(* What the caller may pass.                                               *)
(***************************************************************************)
Dtypes == {"int8", "float32"}

NameArgs == {NoneName, StrName(""), StrName("ReduceSum_0")}

AxisArgs ==
    {AxisNone, AxisInt(0), AxisSized(<<>>), AxisSized(<<1, 1, 0>>)}

\* a blob produced outside reduce_sum
ExternalLbi == [op_name |-> "Input_0", blob_name |-> "out"]

\* the handles returned so far
Handles == {calls[i].handle.lbi : i \in {k \in 1..Len(calls) : calls[k].outcome = "returned"}}

\* the inputs of a caller that reduces blobs produced elsewhere
InputTensors == [lbi : {ExternalLbi}, dtype : Dtypes]

\* the inputs of a caller that also reduces what reduce_sum returned
ChainedInputTensors == [lbi : {ExternalLbi} \cup Handles, dtype : Dtypes]

NoArgs ==
    [input_tensor |-> [lbi |-> LogicalBlobId, dtype |-> "float32"],
     axis |-> AxisNone, keepdims |-> FALSE, name |-> NoneName]

Init ==
    /\ pc = "idle"
    /\ args = NoArgs
    /\ op_conf = OperatorConf
    /\ lbi = LogicalBlobId
    /\ exc = ""
    /\ job = <<>>
    /\ seq = 0
    /\ generated = <<>>
    /\ stdout = <<>>
    /\ mark = 0
    /\ calls = <<>>

(***************************************************************************)
(* reduce_sum, statement by statement.                                     *)
(***************************************************************************)
Warning(t) ==
    "warnning: int 8 blob: " \o logical_blob_name(t.lbi)
        \o " is used in a reduce sum, could lead to overflow"

\* the caller does not catch: an exception that left reduce_sum ends the script
Running == \A i \in 1..Len(calls) : calls[i].outcome = "returned"

\* a variant of lines 16-21 that rejects an int8 input after warning about it
EnterWithRejectsInt8(t, a, k, n) ==
    /\ pc = "idle"
    /\ args' = [input_tensor |-> t, axis |-> a, keepdims |-> k, name |-> n]
    /\ stdout' = IF t.dtype = "int8" THEN Append(stdout, Warning(t)) ELSE stdout
    /\ mark' = Len(stdout)
    /\ op_conf' = OperatorConf
    /\ pc' = IF t.dtype = "int8" THEN "raised" ELSE "set_name"
    /\ exc' = IF t.dtype = "int8" THEN "ValueError" ELSE exc
    /\ UNCHANGED <<lbi, job, seq, generated, calls>>

\* lines 15-22: entry, the int8 check and its print, op_conf = OperatorConf()
EnterWith(t, a, k, n) ==
    /\ pc = "idle"
    /\ args' = [input_tensor |-> t, axis |-> a, keepdims |-> k, name |-> n]
    /\ stdout' = IF t.dtype = "int8" THEN Append(stdout, Warning(t)) ELSE stdout
    /\ mark' = Len(stdout)
    /\ op_conf' = OperatorConf
    /\ pc' = "set_name"
    /\ UNCHANGED <<lbi, exc, job, seq, generated, calls>>

\* a caller: one more call, with any arguments
Enter ==
    /\ pc = "idle"
    /\ Running
    /\ Len(calls) < MaxCalls
    /\ \E t \in InputTensors, a \in AxisArgs, k \in BOOLEAN, n \in NameArgs :
           EnterWith(t, a, k, n)

\* a caller that omits name and chains: the input may be an earlier result
EnterChained ==
    /\ pc = "idle"
    /\ Running
    /\ Len(calls) < MaxCalls
    /\ \E t \in ChainedInputTensors, a \in AxisArgs, k \in BOOLEAN :
           EnterWith(t, a, k, NoneName)

\* a variant of line 24 that tests the truth of name: `name if name else UniqueStr(..)`
SetNameIfTruthy ==
    /\ pc = "set_name"
    /\ IF args.name.kind # "None" /\ args.name.str # ""
       THEN /\ op_conf' = [op_conf EXCEPT !.name = args.name.str]
            /\ UNCHANGED <<seq, generated>>
       ELSE /\ op_conf' = [op_conf EXCEPT !.name = UniqueStr("ReduceSum_", seq)]
            /\ generated' = Append(generated, UniqueStr("ReduceSum_", seq))
            /\ seq' = seq + 1
    /\ pc' = "set_in"
    /\ UNCHANGED <<args, lbi, exc, job, stdout, mark, calls>>

\* a variant of lines 23-25 that refuses a name the job already holds
SetNameRejectsDuplicate ==
    /\ pc = "set_name"
    /\ IF args.name.kind # "None"
       THEN IF \E i \in 1..Len(job) : job[i].name = args.name.str
            THEN /\ exc' = "ValueError"
                 /\ pc' = "raised"
                 /\ UNCHANGED <<op_conf, seq, generated>>
            ELSE /\ op_conf' = [op_conf EXCEPT !.name = args.name.str]
                 /\ pc' = "set_in"
                 /\ UNCHANGED <<exc, seq, generated>>
       ELSE /\ op_conf' = [op_conf EXCEPT !.name = UniqueStr("ReduceSum_", seq)]
            /\ generated' = Append(generated, UniqueStr("ReduceSum_", seq))
            /\ seq' = seq + 1
            /\ pc' = "set_in"
            /\ UNCHANGED exc
    /\ UNCHANGED <<args, lbi, job, stdout, mark, calls>>

\* a variant of line 24 that uses the prefix itself, without asking UniqueStr
SetNameFixedPrefix ==
    /\ pc = "set_name"
    /\ op_conf' = [op_conf EXCEPT !.name =
                       IF args.name.kind # "None" THEN args.name.str ELSE "ReduceSum_"]
    /\ pc' = "set_in"
    /\ UNCHANGED <<args, lbi, exc, job, seq, generated, stdout, mark, calls>>

\* lines 23-25: setattr(op_conf, "name", name if name is not None else UniqueStr(..))
SetName ==
    /\ pc = "set_name"
    /\ IF args.name.kind # "None"
       THEN /\ op_conf' = [op_conf EXCEPT !.name = args.name.str]
            /\ UNCHANGED <<seq, generated>>
       ELSE /\ op_conf' = [op_conf EXCEPT !.name = UniqueStr("ReduceSum_", seq)]
            /\ generated' = Append(generated, UniqueStr("ReduceSum_", seq))
            /\ seq' = seq + 1
    /\ pc' = "set_in"
    /\ UNCHANGED <<args, lbi, exc, job, stdout, mark, calls>>

\* line 26: setattr(op_conf.reduce_sum_conf, "in", input_tensor.logical_blob_name)
SetIn ==
    /\ pc = "set_in"
    /\ op_conf' = [op_conf EXCEPT !.reduce_sum_conf.in =
                                      logical_blob_name(args.input_tensor.lbi)]
    /\ pc' = "set_out"
    /\ UNCHANGED <<args, lbi, exc, job, seq, generated, stdout, mark, calls>>

\* line 27: setattr(op_conf.reduce_sum_conf, "out", "out")
SetOut ==
    /\ pc = "set_out"
    /\ op_conf' = [op_conf EXCEPT !.reduce_sum_conf.out = "out"]
    /\ pc' = "set_axis"
    /\ UNCHANGED <<args, lbi, exc, job, seq, generated, stdout, mark, calls>>

\* lines 29-31: list(axis) if isinstance(axis, collections.Sized) else [axis]
AxisList(a) == IF a.kind = "Sized" THEN a.elems ELSE <<a.int>>

\* a variant of line 28 that tests the truth of axis: `if axis:`
SetAxisIfTruthy ==
    /\ pc = "set_axis"
    /\ op_conf' = IF /\ args.axis.kind # "None"
                     /\ ~(args.axis.kind = "int" /\ args.axis.int = 0)
                     /\ ~(args.axis.kind = "Sized" /\ Len(args.axis.elems) = 0)
                  THEN [op_conf EXCEPT !.reduce_sum_conf.axis = AxisList(args.axis)]
                  ELSE op_conf
    /\ pc' = "set_keep_dims"
    /\ UNCHANGED <<args, lbi, exc, job, seq, generated, stdout, mark, calls>>

\* lines 28-31: if axis is not None: op_conf.reduce_sum_conf.axis[:] = ...
SetAxis ==
    /\ pc = "set_axis"
    /\ op_conf' = IF args.axis.kind # "None"
                  THEN [op_conf EXCEPT !.reduce_sum_conf.axis = AxisList(args.axis)]
                  ELSE op_conf
    /\ pc' = "set_keep_dims"
    /\ UNCHANGED <<args, lbi, exc, job, seq, generated, stdout, mark, calls>>

\* a variant that registers the descriptor first and sets keep_dims afterwards
SetKeepDimsAfterAddOp ==
    /\ pc = "set_keep_dims"
    /\ job' = CurJobAddOp(job, op_conf)
    /\ op_conf' = [op_conf EXCEPT !.reduce_sum_conf.keep_dims = args.keepdims]
    /\ pc' = "make_lbi"
    /\ UNCHANGED <<args, lbi, exc, seq, generated, stdout, mark, calls>>

\* line 32: setattr(op_conf.reduce_sum_conf, "keep_dims", keepdims)
SetKeepDims ==
    /\ pc = "set_keep_dims"
    /\ op_conf' = [op_conf EXCEPT !.reduce_sum_conf.keep_dims = args.keepdims]
    /\ pc' = "add_op"
    /\ UNCHANGED <<args, lbi, exc, job, seq, generated, stdout, mark, calls>>

\* a variant of line 33 that never registers the descriptor
AddOpForgets ==
    /\ pc = "add_op"
    /\ pc' = "make_lbi"
    /\ UNCHANGED <<args, op_conf, lbi, exc, job, seq, generated, stdout, mark, calls>>

\* line 33: compile_context.CurJobAddOp(op_conf) returns
AddOp ==
    /\ pc = "add_op"
    /\ job' = CurJobAddOp(job, op_conf)
    /\ pc' = "make_lbi"
    /\ UNCHANGED <<args, op_conf, lbi, exc, seq, generated, stdout, mark, calls>>

\* line 33: compile_context.CurJobAddOp(op_conf) raises
AddOpRaises ==
    /\ pc = "add_op"
    /\ exc' = "CurJobAddOp"
    /\ pc' = "raised"
    /\ UNCHANGED <<args, op_conf, lbi, job, seq, generated, stdout, mark, calls>>

\* a variant of line 35 that names the handle after the argument: lbi.op_name = name
MakeLbiFromArgument ==
    /\ pc = "make_lbi"
    /\ lbi' = [LogicalBlobId EXCEPT !.op_name = args.name.str, !.blob_name = "out"]
    /\ pc' = "return"
    /\ UNCHANGED <<args, op_conf, exc, job, seq, generated, stdout, mark, calls>>

\* lines 34-36: lbi = LogicalBlobId(); lbi.op_name = op_conf.name; lbi.blob_name = "out"
MakeLbi ==
    /\ pc = "make_lbi"
    /\ lbi' = [LogicalBlobId EXCEPT !.op_name = op_conf.name, !.blob_name = "out"]
    /\ pc' = "return"
    /\ UNCHANGED <<args, op_conf, exc, job, seq, generated, stdout, mark, calls>>

Printed == SubSeq(stdout, mark + 1, Len(stdout))

\* line 37: return remote_blob_util.RemoteBlob(lbi)
Return ==
    /\ pc = "return"
    /\ calls' = Append(calls,
                       [args |-> args, outcome |-> "returned", exc |-> "",
                        handle |-> RemoteBlob(lbi), op_conf |-> op_conf,
                        printed |-> Printed])
    /\ pc' = "idle"
    /\ args' = NoArgs
    /\ op_conf' = OperatorConf
    /\ lbi' = LogicalBlobId
    /\ mark' = Len(stdout)
    /\ UNCHANGED <<exc, job, seq, generated, stdout>>

\* the exception leaves reduce_sum: the call yields no value
Propagate ==
    /\ pc = "raised"
    /\ calls' = Append(calls,
                       [args |-> args, outcome |-> "raised", exc |-> exc,
                        handle |-> RemoteBlob(LogicalBlobId), op_conf |-> op_conf,
                        printed |-> Printed])
    /\ pc' = "idle"
    /\ args' = NoArgs
    /\ op_conf' = OperatorConf
    /\ lbi' = LogicalBlobId
    /\ exc' = ""
    /\ mark' = Len(stdout)
    /\ UNCHANGED <<job, seq, generated, stdout>>

Step ==
    \/ SetName
    \/ SetIn
    \/ SetOut
    \/ SetAxis
    \/ SetKeepDims
    \/ AddOp
    \/ AddOpRaises
    \/ MakeLbi
    \/ Return
    \/ Propagate

Next == Enter \/ Step

NextChain == EnterChained \/ Step

\* any sequence of calls on blobs produced elsewhere
Spec == Init /\ [][Next]_vars

\* any sequence of calls that omit name, each on an external blob or on an earlier result
SpecChain == Init /\ [][NextChain]_vars

(***************************************************************************)
(* Vocabulary of the properties.                                           *)
(***************************************************************************)
IsReturned(c) == c.outcome = "returned"
RetCalls == SelectSeq(calls, IsReturned)

InCall == pc \notin {"idle"}
Registered == pc \in {"make_lbi", "return"}
OutOf(d) == d.name \o "/" \o d.reduce_sum_conf.out
NoneNamed(c) == c.args.name.kind = "None"
\* how many of the first i finished calls asked the generator for a name
NoneNamedUpTo(i) == Cardinality({k \in 1..i : NoneNamed(calls[k])})
\* the same arguments, the dtype of the input apart
SameButDtype(x, y) ==
    /\ x.input_tensor.lbi = y.input_tensor.lbi
    /\ x.name = y.name
    /\ x.axis = y.axis
    /\ x.keepdims = y.keepdims
AllOmitName ==
    /\ \A i \in 1..Len(calls) : NoneNamed(calls[i])
    /\ InCall => args.name.kind = "None"
GeneratorNeverRepeats ==
    \A i, j \in 1..Len(generated) : i # j => generated[i] # generated[j]
StartsWith(s, prefix) ==
    /\ Len(s) >= Len(prefix)
    /\ SubSeq(s, 1, Len(prefix)) = prefix

(***************************************************************************)
(* C1: every returning call has appended exactly one descriptor: the job   *)
(* is the sequence of the descriptors built by the returning calls, in     *)
(* call order (plus the one of a call that has registered and not yet      *)
(* returned), so no call removes, reorders or alters an earlier one.       *)
(***************************************************************************)
C1_OneDescriptorPerReturningCall ==
    LET r == RetCalls
    IN
        /\ Len(job) = Len(r) + (IF Registered THEN 1 ELSE 0)
        /\ \A i \in 1..Len(r) :
            /\ i <= Len(job)
            /\ job[i] = r[i].op_conf
            /\ job[i].reduce_sum_conf.in =
                   logical_blob_name(r[i].args.input_tensor.lbi)

C1_Witness ==
    /\ pc = "idle"
    /\ Len(RetCalls) = MaxCalls
    /\ Len(job) = MaxCalls
    /\ job[1] # job[2]

(***************************************************************************)
(* C2: the logical blob id of a returned handle is (op_name, blob_name)    *)
(* with op_name the name of the descriptor that call added to the job and  *)
(* blob_name that descriptor's out field, which is "out"; every returned   *)
(* handle names a descriptor present in the job.                           *)
(***************************************************************************)
C2_HandleNamesRegisteredOutput ==
    LET r == RetCalls
    IN
        \A i \in 1..Len(r) :
            /\ i <= Len(job)
            /\ r[i].handle.lbi.op_name = job[i].name
            /\ r[i].handle.lbi.blob_name = job[i].reduce_sum_conf.out
            /\ job[i].reduce_sum_conf.out = "out"

C2_Witness ==
    /\ Len(RetCalls) = 2
    /\ NoneNamed(RetCalls[1])
    /\ ~NoneNamed(RetCalls[2])
    /\ RetCalls[1].handle.lbi = [op_name |-> job[1].name, blob_name |-> "out"]
    /\ RetCalls[2].handle.lbi = [op_name |-> job[2].name, blob_name |-> "out"]

(***************************************************************************)
(* C3: axis and keepdims reach the descriptor unchanged: keep_dims is the  *)
(* caller's keepdims; a sized axis gives its elements in order, with the   *)
(* same length; a single value, 0 included, gives the one-element list;    *)
(* None leaves the list empty, so None and [] give the same descriptor.    *)
(***************************************************************************)
C3_AxisKeepdimsPassThrough ==
    LET r == RetCalls
    IN
        /\ \A i \in 1..Len(r) :
            LET a == r[i].args.axis
                d == job[i].reduce_sum_conf
            IN  /\ d.keep_dims = r[i].args.keepdims
                /\ a.kind = "Sized" =>
                       /\ Len(d.axis) = Len(a.elems)
                       /\ \A k \in 1..Len(a.elems) : d.axis[k] = a.elems[k]
                /\ a.kind = "int" => (Len(d.axis) = 1 /\ d.axis[1] = a.int)
                /\ a.kind = "None" => Len(d.axis) = 0
        /\ \A i, j \in 1..Len(r) :
            LET x == r[i].args
                y == r[j].args
            IN  ( /\ x.axis.kind = "None"
                  /\ y.axis.kind = "Sized" /\ Len(y.axis.elems) = 0
                  /\ x.name.kind = "str" /\ x.name = y.name
                  /\ x.input_tensor.lbi = y.input_tensor.lbi
                  /\ x.keepdims = y.keepdims )
                => job[i] = job[j]

C3_Witness ==
    /\ Len(RetCalls) = 2
    /\ RetCalls[1].args.axis = AxisInt(0)
    /\ job[1].reduce_sum_conf.axis = <<0>>
    /\ RetCalls[2].args.axis = AxisSized(<<1, 1, 0>>)
    /\ job[2].reduce_sum_conf.axis = <<1, 1, 0>>
    /\ RetCalls[2].args.keepdims
    /\ job[2].reduce_sum_conf.keep_dims

(***************************************************************************)
(* C4: the registered name is the caller's name verbatim whenever name is  *)
(* not None (the empty string included) and otherwise the string the       *)
(* unique-name generator produced for that call; the handle's op_name is   *)
(* the same string.  The generator is asked only when name is None.        *)
(***************************************************************************)
C4_NameVerbatimOrGenerated ==
    LET r == RetCalls
    IN
        /\ \A i \in 1..Len(r) :
            LET n == r[i].args.name
            IN  /\ n.kind = "str" => job[i].name = n.str
                /\ n.kind = "None" =>
                       /\ NoneNamedUpTo(i) <= Len(generated)
                       /\ job[i].name = generated[NoneNamedUpTo(i)]
                       /\ StartsWith(job[i].name, "ReduceSum_")
                /\ r[i].handle.lbi.op_name = job[i].name
        /\ Len(generated) = NoneNamedUpTo(Len(calls))
               + (IF InCall /\ pc # "set_name" /\ args.name.kind = "None" THEN 1 ELSE 0)

C4_Witness ==
    /\ Len(RetCalls) = 2
    /\ RetCalls[1].args.name = StrName("")
    /\ job[1].name = ""
    /\ RetCalls[2].args.name = NoneName
    /\ job[2].name = "ReduceSum_0"
    /\ RetCalls[2].handle.lbi.op_name = "ReduceSum_0"

(***************************************************************************)
(* C5: reduce_sum validates nothing: from every statement of a call the    *)
(* next statement runs without raising, whatever the arguments and         *)
(* whatever the job holds; every combination of arguments can be entered;  *)
(* the only exception that leaves a call is one raised by CurJobAddOp.  A  *)
(* second call with the same explicit name adds a second descriptor with   *)
(* that name and returns a handle with the same logical blob id.           *)
(***************************************************************************)
Progress ==
    /\ \/ SetName \/ SetIn \/ SetOut \/ SetAxis \/ SetKeepDims
       \/ AddOp \/ MakeLbi \/ Return
    /\ pc' # "raised"

C5_NoValidation ==
    LET r == RetCalls
    IN
        /\ (InCall /\ pc # "raised") => ENABLED Progress
        /\ pc = "raised" => exc = "CurJobAddOp"
        /\ \A i \in 1..Len(calls) : ~IsReturned(calls[i]) => calls[i].exc = "CurJobAddOp"
        /\ pc = "idle" =>
               \A t \in InputTensors, a \in AxisArgs, k \in BOOLEAN, n \in NameArgs :
                   ENABLED EnterWith(t, a, k, n)
        /\ \A i, j \in 1..Len(r) :
            ( /\ i < j
              /\ r[i].args.name.kind = "str"
              /\ r[i].args.name = r[j].args.name )
            => /\ j <= Len(job)
               /\ job[i].name = r[i].args.name.str
               /\ job[j].name = job[i].name
               /\ r[j].handle.lbi = r[i].handle.lbi

C5_Witness ==
    /\ Len(RetCalls) = 2
    /\ RetCalls[1].args.name = StrName("ReduceSum_0")
    /\ RetCalls[2].args.name = StrName("ReduceSum_0")
    /\ Len(job) = 2
    /\ job[1].name = "ReduceSum_0"
    /\ job[2].name = "ReduceSum_0"
    /\ RetCalls[1].handle.lbi = RetCalls[2].handle.lbi

(***************************************************************************)
(* C6: a warning that names the input's logical blob name is printed       *)
(* exactly when the input's dtype is int8; two calls that differ only in   *)
(* the dtype of the input register the same descriptor and return the      *)
(* same handle (the generated name apart, when name is None).              *)
(***************************************************************************)
WarningHead == "warnning: int 8 blob: "

WarnedFor(printed, t) ==
    IF t.dtype = "int8"
    THEN /\ Len(printed) = 1
         /\ Len(printed[1]) >= Len(WarningHead) + Len(t.lbi.op_name) + 1 + Len(t.lbi.blob_name)
         /\ SubSeq(printed[1], 1, Len(WarningHead)) = WarningHead
         /\ SubSeq(printed[1], Len(WarningHead) + 1,
                   Len(WarningHead) + Len(t.lbi.op_name) + 1 + Len(t.lbi.blob_name))
                = t.lbi.op_name \o "/" \o t.lbi.blob_name
    ELSE Len(printed) = 0

C6_Int8WarnedNotRejected ==
    LET r == RetCalls
    IN
        /\ InCall => WarnedFor(Printed, args.input_tensor)
        /\ (InCall /\ args.input_tensor.dtype = "int8") => exc \in {"", "CurJobAddOp"}
        /\ \A i \in 1..Len(calls) :
               calls[i].args.input_tensor.dtype = "int8" =>
                   calls[i].exc \in {"", "CurJobAddOp"}
        /\ \A i \in 1..Len(calls) : WarnedFor(calls[i].printed, calls[i].args.input_tensor)
        /\ \A i, j \in 1..Len(r) :
            SameButDtype(r[i].args, r[j].args)
            => /\ job[i].reduce_sum_conf = job[j].reduce_sum_conf
               /\ r[i].args.name.kind = "str" =>
                      /\ job[i] = job[j]
                      /\ r[i].handle = r[j].handle

C6_Witness ==
    /\ Len(RetCalls) = 2
    /\ RetCalls[1].args.input_tensor.dtype = "int8"
    /\ RetCalls[2].args.input_tensor.dtype = "float32"
    /\ SameButDtype(RetCalls[1].args, RetCalls[2].args)
    /\ RetCalls[1].args.name.kind = "str"
    /\ Len(RetCalls[1].printed) = 1
    /\ Len(RetCalls[2].printed) = 0
    /\ job[1] = job[2]

(***************************************************************************)
(* C7: build, then register, then return: when the descriptor is handed    *)
(* to the job all its fields are set; once handed over it is not written   *)
(* again (the job's last descriptor stays equal to the local one); the     *)
(* logical blob id does not exist before the hand-over; a call whose       *)
(* registration raised returned no handle and left the job as it was.      *)
(***************************************************************************)
FullyBuilt(d, x) ==
    /\ x.name.kind = "str" => d.name = x.name.str
    /\ x.name.kind = "None" =>
           (Len(generated) > 0 /\ d.name = generated[Len(generated)])
    /\ d.reduce_sum_conf.in = logical_blob_name(x.input_tensor.lbi)
    /\ d.reduce_sum_conf.out = "out"
    /\ d.reduce_sum_conf.axis =
           (IF x.axis.kind = "None" THEN <<>>
            ELSE IF x.axis.kind = "int" THEN <<x.axis.int>> ELSE x.axis.elems)
    /\ d.reduce_sum_conf.keep_dims = x.keepdims

C7_BuildRegisterReturn ==
    LET r == RetCalls
    IN
        /\ pc = "add_op" => FullyBuilt(op_conf, args)
        /\ Registered =>
               /\ Len(job) > 0
               /\ job[Len(job)] = op_conf
               /\ FullyBuilt(op_conf, args)
        /\ (InCall /\ pc \notin {"return"}) => lbi = LogicalBlobId
        /\ pc = "return" => lbi = [op_name |-> job[Len(job)].name, blob_name |-> "out"]
        /\ pc = "raised" => Len(job) = Len(r)
        /\ \A i \in 1..Len(calls) :
            ~IsReturned(calls[i]) =>
                /\ calls[i].handle = RemoteBlob(LogicalBlobId)
                /\ Len(job) = Len(r)

C7_Witness ==
    /\ pc = "return"
    /\ args.name.kind = "None"
    /\ args.keepdims
    /\ args.axis = AxisSized(<<1, 1, 0>>)
    /\ job[Len(job)] = op_conf
    /\ op_conf.reduce_sum_conf.axis = <<1, 1, 0>>
    /\ op_conf.reduce_sum_conf.keep_dims

(***************************************************************************)
(* C8: if every call omits name and the generator never returns the same   *)
(* string twice, the registered names are pairwise distinct and each       *)
(* starts with "ReduceSum_", and no two returned handles have the same     *)
(* logical blob id.                                                        *)
(***************************************************************************)
C8_GeneratedNamesDistinct ==
    LET r == RetCalls
    IN
        (AllOmitName /\ GeneratorNeverRepeats) =>
            /\ \A i, j \in 1..Len(job) : i # j => job[i].name # job[j].name
            /\ \A i \in 1..Len(job) : StartsWith(job[i].name, "ReduceSum_")
            /\ \A i, j \in 1..Len(r) :
                   i # j => r[i].handle.lbi # r[j].handle.lbi

C8_Witness ==
    /\ AllOmitName
    /\ GeneratorNeverRepeats
    /\ Len(RetCalls) = 2
    /\ Len(job) = 2
    /\ job[1].name = "ReduceSum_0"
    /\ job[2].name = "ReduceSum_1"

(***************************************************************************)
(* C9: when calls are chained and all omit name, the in field of the       *)
(* descriptor of every call that took an earlier returned handle as input  *)
(* names the output of a descriptor registered strictly earlier, and no    *)
(* descriptor of the job names its own output or the output of a later     *)
(* descriptor.                                                             *)
(***************************************************************************)
EarlierHandles(r, i) == {r[j].handle.lbi : j \in 1..(i - 1)}

C9_ChainIsDependencyOrder ==
    LET r == RetCalls
    IN
        AllOmitName =>
            /\ \A i \in 1..Len(job) : \A j \in i..Len(job) :
                   job[i].reduce_sum_conf.in # OutOf(job[j])
            /\ \A i \in 1..Len(r) :
                   r[i].args.input_tensor.lbi \in EarlierHandles(r, i)
                   => \E j \in 1..(i - 1) : job[i].reduce_sum_conf.in = OutOf(job[j])

C9_Witness ==
    /\ AllOmitName
    /\ Len(RetCalls) = 2
    /\ RetCalls[2].args.input_tensor.lbi = RetCalls[1].handle.lbi
    /\ job[2].reduce_sum_conf.in = "ReduceSum_0/out"
    /\ job[1].name = "ReduceSum_0"

====
